---------------------------- MODULE Spec2Model ----------------------------
(***************************************************************************)
(* Model of tsv2ledger.py: conversion of a tab separated accounting        *)
(* journal into the journal format of the "ledger" program.                *)
(*                                                                         *)
(* Text is modelled as a sequence of characters; a character is a TLA+     *)
(* string naming it ("7", " ", "nbsp", "l_stroke" for U+0142, "z_acute"    *)
(* for U+017A, "endash" for U+2013, "emdash" for U+2014, "\n").            *)
(***************************************************************************)
EXTENDS Integers, Sequences, FiniteSets, TLC

VARIABLES
    pc,            \* position of the script / of the function call
    tsv_file,      \* the input file: its records, each a sequence of fields
    reader,        \* index of the next record csv.DictReader will yield
    transactions,  \* the defaultdict: ordinal -> list of JournalRow
    todo,          \* ordinals the output loop has still to visit, in order
    emitted,       \* ordinals whose loop body has run to its end, in order
    dest_before,   \* the destination file before the run
    dest_file,     \* the destination file
    arg,           \* argument of the function applied (function specifications)
    result         \* its outcome

vars == <<pc, tsv_file, reader, transactions, todo, emitted, dest_before,
          dest_file, arg, result>>

\* ----------------------------------------------------------------- bounds
MaxRows == 3
MaxIntLen == 5
MaxTRows == 2
MaxTCols == 2

\* ------------------------------------------------------------- characters
NL == "\n"
NBSP == "nbsp"
Whitespace == {" ", NBSP, NL}
DigitChars == <<"0", "1", "2", "3", "4", "5", "6", "7", "8", "9">>
Digits == {DigitChars[i] : i \in 1..10}
DigitVal(c) == (CHOOSE i \in 1..10 : DigitChars[i] = c) - 1

\* Python's None, where a text is expected: no text equals it, because
\* "<None>" is not a character.
None == <<"<None>">>

\* Outcome of a call: a returned value or a raised exception.
Return(v) == [raised |-> FALSE, val |-> v]
Raise == [raised |-> TRUE, val |-> <<>>]
RaiseInt == [raised |-> TRUE, val |-> 0]

\* ---------------------------------------------------- str / int built-ins
\* First index j >= i with s[j] outside C (Len(s)+1 when there is none).
RunEnd(s, i, C) ==
    CHOOSE j \in i..(Len(s) + 1) :
        /\ \A k \in i..(j - 1) : s[k] \in C
        /\ j = Len(s) + 1 \/ s[j] \notin C

\* Last index j <= i with s[j] outside C, scanning leftwards (0 when none).
RunStart(s, i, C) ==
    CHOOSE j \in 0..i :
        /\ \A k \in (j + 1)..i : s[k] \in C
        /\ j = 0 \/ s[j] \notin C

\* str.strip()
strip(s) ==
    LET b == RunEnd(s, 1, Whitespace)
        e == RunStart(s, Len(s), Whitespace)
    IN  IF b > Len(s) THEN <<>> ELSE SubSeq(s, b, e)

RECURSIVE DigitsValue(_)
DigitsValue(ds) ==
    IF ds = <<>> THEN 0
    ELSE 10 * DigitsValue(SubSeq(ds, 1, Len(ds) - 1)) + DigitVal(ds[Len(ds)])

\* int(text): surrounding whitespace and one sign are accepted, single
\* underscores between digits are ignored, anything else is a ValueError.
int(text) ==
    LET t == strip(text)
        signed == t # <<>> /\ t[1] \in {"+", "-"}
        body == IF signed THEN Tail(t) ELSE t
        ds == SelectSeq(body, LAMBDA c : c # "_")
        wellFormed ==
            /\ body # <<>>
            /\ \A k \in 1..Len(body) : body[k] \in Digits \cup {"_"}
            /\ body[1] # "_" /\ body[Len(body)] # "_"
            /\ \A k \in 1..(Len(body) - 1) : ~(body[k] = "_" /\ body[k + 1] = "_")
    IN  IF ~wellFormed THEN RaiseInt
        ELSE Return(IF signed /\ t[1] = "-" THEN 0 - DigitsValue(ds)
                    ELSE DigitsValue(ds))

RECURSIVE NatStr(_)
NatStr(n) ==
    IF n < 10 THEN <<DigitChars[n + 1]>>
    ELSE NatStr(n \div 10) \o <<DigitChars[(n % 10) + 1]>>

\* str(n) / f'{n}'
str(n) == IF n < 0 THEN <<"-">> \o NatStr(0 - n) ELSE NatStr(n)

RECURSIVE Zeros(_)
Zeros(k) == IF k <= 0 THEN <<>> ELSE <<"0">> \o Zeros(k - 1)

\* f'{n:02}': zero padding to a total width of two, sign included.
fmt02(n) ==
    IF n < 0 THEN <<"-">> \o Zeros(1 - Len(NatStr(0 - n))) \o NatStr(0 - n)
    ELSE Zeros(2 - Len(NatStr(n))) \o NatStr(n)

RECURSIVE GroupThousands(_)
GroupThousands(ds) ==
    IF Len(ds) <= 3 THEN ds
    ELSE GroupThousands(SubSeq(ds, 1, Len(ds) - 3)) \o <<",">>
             \o SubSeq(ds, Len(ds) - 2, Len(ds))

\* f'{n:,d}'
fmtComma(n) ==
    IF n < 0 THEN <<"-">> \o GroupThousands(NatStr(0 - n))
    ELSE GroupThousands(NatStr(n))

\* str.split(): split on runs of whitespace, no empty tokens.
RECURSIVE split(_)
split(s) ==
    LET b == RunEnd(s, 1, Whitespace)
    IN  IF b > Len(s) THEN <<>>
        ELSE LET e == RunEnd(s, b, {c \in {s[k] : k \in 1..Len(s)} : c \notin Whitespace})
             IN  <<SubSeq(s, b, e - 1)>> \o split(SubSeq(s, e, Len(s)))

\* str.split(sep) for a one-character separator: empty pieces are kept.
RECURSIVE splitOn(_, _)
splitOn(s, sep) ==
    LET e == RunEnd(s, 1, {c \in {s[k] : k \in 1..Len(s)} : c # sep})
    IN  IF e > Len(s) THEN <<s>>
        ELSE <<SubSeq(s, 1, e - 1)>> \o splitOn(SubSeq(s, e + 1, Len(s)), sep)

\* sep.join(parts)
RECURSIVE join(_, _)
join(parts, sep) ==
    IF parts = <<>> THEN <<>>
    ELSE IF Len(parts) = 1 THEN parts[1]
    ELSE parts[1] \o sep \o join(Tail(parts), sep)

RECURSIVE reversed(_)
reversed(xs) ==
    IF xs = <<>> THEN <<>> ELSE reversed(Tail(xs)) \o <<Head(xs)>>

\* ----------------------------------------------------------- amount field
CurrencyTokens == << <<"E", "U", "R">>, <<"P", "L", "N">>, <<"z", "l_stroke">> >>
PLN == <<"P", "L", "N">>
EUR == <<"E", "U", "R">>

\* currency_symbols
currency_symbols(cur) == IF cur = <<"z", "l_stroke">> THEN PLN ELSE cur

StartsAt(s, i, tok) ==
    /\ i + Len(tok) - 1 <= Len(s)
    /\ SubSeq(s, i, i + Len(tok) - 1) = tok

\* (EUR|PLN|zl) at position i: the matched alternative, or <<>>.
CurrencyAt(s, i) ==
    IF \E k \in 1..Len(CurrencyTokens) : StartsAt(s, i, CurrencyTokens[k])
    THEN CurrencyTokens[CHOOSE k \in 1..Len(CurrencyTokens) :
                            StartsAt(s, i, CurrencyTokens[k])]
    ELSE <<>>

\* \s+(EUR|PLN|zl) at position i
GapCurrencyAt(s, i) ==
    LET e == RunEnd(s, i, Whitespace)
    IN  IF i <= Len(s) /\ e > i THEN CurrencyAt(s, e) ELSE <<>>

IntClass == Digits \cup Whitespace

\* ([0-9\s]+),(\d\d) at position i, then the text "close" : the groups and
\* the position after the match, when it matches.
NumberAt(s, i, close) ==
    LET j == RunEnd(s, i, IntClass)
        after == j + 3 + Len(close)
        ok == /\ i <= Len(s)
              /\ j > i
              /\ j + 2 <= Len(s)
              /\ s[j] = ","
              /\ s[j + 1] \in Digits
              /\ s[j + 2] \in Digits
              /\ (close = <<>> \/ StartsAt(s, j + 3, close))
              /\ GapCurrencyAt(s, after) # <<>>
    IN  [ok |-> ok,
         int_part |-> IF ok THEN SubSeq(s, i, j - 1) ELSE <<>>,
         frac_part |-> IF ok THEN SubSeq(s, j + 1, j + 2) ELSE <<>>,
         currency |-> IF ok THEN GapCurrencyAt(s, after) ELSE <<>>]

NoMatch == [ok |-> FALSE, int_part |-> <<>>, frac_part |-> <<>>, currency |-> <<>>]

SetMax(S) == CHOOSE x \in S : \A y \in S : y <= x
SetMin(S) == CHOOSE x \in S : \A y \in S : x <= y

\* Pattern.search: the match at the leftmost position where the pattern
\* matches.
PositiveAt(s, i) == NumberAt(s, i, <<>>)
POSITIVE_AMOUNT_PATTERN(s) ==
    LET hits == {i \in 1..Len(s) : PositiveAt(s, i).ok}
    IN  IF hits = {} THEN NoMatch ELSE PositiveAt(s, SetMin(hits))

NegativeAt(s, i) ==
    IF i <= Len(s) /\ s[i] = "(" THEN NumberAt(s, i + 1, <<")">>) ELSE NoMatch
NEGATIVE_AMOUNT_PATTERN(s) ==
    LET hits == {i \in 1..Len(s) : NegativeAt(s, i).ok}
    IN  IF hits = {} THEN NoMatch ELSE NegativeAt(s, SetMin(hits))

ZeroAt(s, i) ==
    IF i <= Len(s) /\ s[i] = "-" /\ GapCurrencyAt(s, i + 1) # <<>>
    THEN [ok |-> TRUE, int_part |-> <<>>, frac_part |-> <<>>,
          currency |-> GapCurrencyAt(s, i + 1)]
    ELSE NoMatch
ZERO_AMOUNT_PATTERN(s) ==
    LET hits == {i \in 1..Len(s) : ZeroAt(s, i).ok}
    IN  IF hits = {} THEN NoMatch ELSE ZeroAt(s, SetMin(hits))

\* Mutation: only the ordinary space is removed (str.replace(' ', '')).
remove_whitespace_spaces_only(string) == SelectSeq(string, LAMBDA c : c # " ")

remove_whitespace(string) == SelectSeq(string, LAMBDA c : c \notin Whitespace)

\* The two number branches of amount_in_ledger_fmt.
AmountOf(sign, m) ==
    LET n == int(remove_whitespace(m.int_part))
    IN  IF n.raised THEN Raise
        ELSE Return(sign \o fmtComma(n.val) \o <<".">> \o m.frac_part
                        \o <<" ">> \o currency_symbols(m.currency))

amount_in_ledger_fmt(amount_in_source_fmt) ==
    IF amount_in_source_fmt = None THEN Raise
    ELSE LET s == amount_in_source_fmt
             pos == POSITIVE_AMOUNT_PATTERN(s)
             neg == NEGATIVE_AMOUNT_PATTERN(s)
             zero == ZERO_AMOUNT_PATTERN(s)
         IN  IF pos.ok THEN AmountOf(<<>>, pos)
             ELSE IF neg.ok THEN AmountOf(<<"-">>, neg)
             ELSE IF zero.ok
                  THEN Return(<<"0", ".", "0", "0", " ">>
                                  \o currency_symbols(zero.currency))
             ELSE Return(None)


\* ------------------------------------------------------------------------
\* Specification of amount_in_ledger_fmt applied to one amount text.
\* ------------------------------------------------------------------------
NoFile == [exists |-> FALSE, content |-> <<>>]
Pending == [raised |-> FALSE, val |-> <<"<pending>">>]

\* The script's own variables, while a single function is applied.
ScriptIdle ==
    /\ tsv_file = <<>>
    /\ reader = 0
    /\ transactions = <<>>
    /\ todo = <<>>
    /\ emitted = <<>>
    /\ dest_before = NoFile
    /\ dest_file = NoFile

RECURSIVE SeqsUpTo(_, _)
\* All sequences over S of length 0..n.
SeqsUpTo(S, n) ==
    IF n = 0 THEN {<<>>}
    ELSE LET shorter == SeqsUpTo(S, n - 1)
         IN  shorter \cup {Append(q, c) : q \in shorter, c \in S}

IntAlphabet == {"0", "7", " ", NBSP}
IntParts == SeqsUpTo(IntAlphabet, MaxIntLen) \ {<<>>}
\* fraction digits, whitespace, currency marker
AmountTails ==
    { [frac |-> <<"0", "0">>, gap |-> <<" ">>, cur |-> EUR],
      [frac |-> <<"4", "9">>, gap |-> <<NBSP, " ">>, cur |-> <<"z", "l_stroke">>],
      [frac |-> <<"4", "9">>, gap |-> <<" ">>, cur |-> PLN],
      [frac |-> <<"0", "5">>, gap |-> <<" ", " ">>, cur |-> <<"z", "l_stroke">>] }
ZeroMarkers == {"-", "endash", "emdash"}
LeadPads == {<<>>, <<" ", " ", " ">>}

AmountInputs ==
    [form : {"positive", "negative"}, int_part : IntParts, tail : AmountTails,
     lead : {<<>>}, marker : {"-"}]
    \cup
    [form : {"zero"}, int_part : {<<>>}, tail : AmountTails,
     lead : LeadPads, marker : ZeroMarkers]
    \cup
    [form : {"dot", "nocurrency"}, int_part : {<<"7">>, <<"7", " ", "0", "0", "0">>},
     tail : AmountTails, lead : {<<>>}, marker : {"-"}]

\* The amount text an input stands for.
AmountText(a) ==
    CASE a.form = "positive" ->
            a.int_part \o <<",">> \o a.tail.frac \o a.tail.gap \o a.tail.cur
      [] a.form = "negative" ->
            <<"(">> \o a.int_part \o <<",">> \o a.tail.frac \o <<")">>
                \o a.tail.gap \o a.tail.cur
      [] a.form = "zero" ->
            a.lead \o <<a.marker>> \o a.tail.gap \o a.tail.cur
      [] a.form = "dot" ->
            a.int_part \o <<".">> \o a.tail.frac \o a.tail.gap \o a.tail.cur
      [] a.form = "nocurrency" ->
            a.int_part \o <<",">> \o a.tail.frac

InitAmount ==
    /\ pc = "call"
    /\ arg \in AmountInputs
    /\ result = Pending
    /\ ScriptIdle

CallAmount ==
    /\ pc = "call"
    /\ result' = amount_in_ledger_fmt(AmountText(arg))
    /\ pc' = "returned"
    /\ UNCHANGED <<tsv_file, reader, transactions, todo, emitted, dest_before,
                   dest_file, arg>>

SpecAmount == InitAmount /\ [][CallAmount]_vars

\* ------------------------------------------------- statements on amounts
Separators == {" ", NBSP}
InputDigits == SelectSeq(arg.int_part, LAMBDA c : c \notin Separators)

RECURSIVE DropLeadingZeros(_)
DropLeadingZeros(ds) ==
    IF Len(ds) > 1 /\ ds[1] = "0" THEN DropLeadingZeros(Tail(ds)) ELSE ds

\* The three-letter code the claims give for a currency marker.
ClaimedCode(cur) ==
    CASE cur = <<"z", "l_stroke">> -> <<"P", "L", "N">>
      [] cur = <<"E", "U", "R">> -> <<"E", "U", "R">>
      [] cur = <<"P", "L", "N">> -> <<"P", "L", "N">>

\* A comma exactly at every fourth place counted from the right, none in front.
CommasEveryThree(g) ==
    /\ g # <<>>
    /\ g[1] # ","
    /\ \A k \in 1..Len(g) : (g[k] = ",") <=> ((Len(g) - k + 1) % 4 = 0)

\* out is [-]<grouped digits>.<frac> <code>, the minus sign exactly when neg.
AmountShape(out, neg, digits, tail) ==
    LET body == IF out # <<>> /\ out[1] = "-" THEN Tail(out) ELSE out
        hasDot == \E k \in 1..Len(body) : body[k] = "."
        dot == CHOOSE k \in 1..Len(body) : body[k] = "."
        g == SubSeq(body, 1, dot - 1)
    IN  /\ out # <<>>
        /\ (out[1] = "-") <=> neg
        /\ hasDot
        /\ CommasEveryThree(g)
        /\ SelectSeq(g, LAMBDA c : c # ",") = digits
        /\ SubSeq(body, dot + 1, Len(body))
               = tail.frac \o <<" ">> \o ClaimedCode(tail.cur)

NumberFormReturned ==
    /\ pc = "returned"
    /\ arg.form \in {"positive", "negative"}
    /\ InputDigits # <<>>

\* C6 (as stated): for an amount of the positive form, or of that form with
\* the numeric part in parentheses, amount_in_ledger_fmt returns the same
\* integer digits, separators stripped, regrouped by commas, a dot, the same
\* two fraction digits, a space and the currency code, with a leading minus
\* sign exactly when the numeric part was parenthesized.
C6_SameDigits ==
    NumberFormReturned =>
        /\ ~result.raised
        /\ result.val # None
        /\ AmountShape(result.val, arg.form = "negative", InputDigits, arg.tail)

\* C6 (amended): as above, but the digits returned are those of the integer
\* value: the input's digits with separators stripped and leading zeros
\* dropped (a single 0 when all digits are zero).
C6_IntegerValueDigits ==
    NumberFormReturned =>
        /\ ~result.raised
        /\ result.val # None
        /\ AmountShape(result.val, arg.form = "negative",
                       DropLeadingZeros(InputDigits), arg.tail)

\* A parenthesized amount with a non-breaking space as thousands separator
\* has been converted.
C6_Witness ==
    /\ pc = "returned"
    /\ arg.form = "negative"
    /\ arg.int_part = <<"7", NBSP, "0", "0", "0">>
    /\ arg.tail.cur = <<"z", "l_stroke">>
    /\ result = Return(<<"-", "7", ",", "0", "0", "0", ".">> \o arg.tail.frac
                           \o <<" ", "P", "L", "N">>)

\* C7: for each of the three zero markers (hyphen, en dash, em dash) alone in
\* place of the numeric part, followed by whitespace and a currency marker,
\* amount_in_ledger_fmt returns "0.00 <code>".
C7_ZeroMarkers ==
    (pc = "returned" /\ arg.form = "zero") =>
        result = Return(<<"0", ".", "0", "0", " ">> \o ClaimedCode(arg.tail.cur))

\* ------------------------------------------------------------- date field
months == << <<"s", "t", "y">>, <<"l", "u", "t">>, <<"m", "a", "r">>,
             <<"k", "w", "i">>, <<"m", "a", "j">>, <<"c", "z", "e">>,
             <<"l", "i", "p">>, <<"s", "i", "e">>, <<"w", "r", "z">>,
             <<"p", "a", "z_acute">>, <<"l", "i", "s">>, <<"g", "r", "u">> >>

\* Mutation: list position used as it is (zero based), without the + 1.
month_number_zero_based(month_name) ==
    IF \E k \in 1..Len(months) : months[k] = month_name
    THEN Return((CHOOSE k \in 1..Len(months) : months[k] = month_name) - 1)
    ELSE RaiseInt

\* months.index(month_name) + 1, a ValueError when it is not in the list.
month_number(month_name) ==
    IF \E k \in 1..Len(months) : months[k] = month_name
    THEN Return(CHOOSE k \in 1..Len(months) : months[k] = month_name)
    ELSE RaiseInt

date_in_ledger_fmt(date_in_source_fmt) ==
    IF date_in_source_fmt = None THEN Raise
    ELSE LET tokens == split(date_in_source_fmt)
         IN  IF Len(tokens) < 3 THEN Raise
             ELSE LET day == int(tokens[1])
                      month == month_number(tokens[2])
                      year == int(tokens[3])
                  IN  IF day.raised \/ month.raised \/ year.raised THEN Raise
                      ELSE Return(str(year.val) \o <<"/">> \o fmt02(month.val)
                                      \o <<"/">> \o fmt02(day.val))

\* ------------------------------------------------------------------------
\* Specification of date_in_ledger_fmt applied to one date text.
\* ------------------------------------------------------------------------
DayTokens == {<<"1">>, <<"0", "9">>, <<"1", "2">>, <<"3", "1">>}
UnknownMonths == {<<"j", "a", "n">>, <<"W", "r", "z">>, <<"w", "r">>}
MonthTokens == {months[k] : k \in 1..Len(months)} \cup UnknownMonths
YearTokens == {<<"2", "0", "2", "2">>, <<"1", "9", "9", "9">>}
\* tokens after the year
RestTokens == {<<>>, << <<"(", "c", "z", ".", ")">> >>,
               << <<"x">>, <<"1", "3">> >>}
TokenGaps == {<<" ">>, <<NBSP, " ">>}

DateInputs ==
    [day : DayTokens, month : MonthTokens, year : YearTokens,
     rest : RestTokens, gap : TokenGaps, ntokens : 0..3]

\* The tokens an input stands for: the first ntokens of day, month and year,
\* followed by the rest when all three are there.
DateTokens(d) ==
    SubSeq(<<d.day, d.month, d.year>>, 1, d.ntokens)
        \o (IF d.ntokens = 3 THEN d.rest ELSE <<>>)

DateText(d) == join(DateTokens(d), d.gap)

InitDate ==
    /\ pc = "call"
    /\ arg \in DateInputs
    /\ result = Pending
    /\ ScriptIdle

CallDate ==
    /\ pc = "call"
    /\ result' = date_in_ledger_fmt(DateText(arg))
    /\ pc' = "returned"
    /\ UNCHANGED <<tsv_file, reader, transactions, todo, emitted, dest_before,
                   dest_file, arg>>

SpecDate == InitDate /\ [][CallDate]_vars

\* Two decimal digits whose value is n.
TwoDigitsOf(text, n) ==
    /\ Len(text) = 2
    /\ text[1] \in Digits /\ text[2] \in Digits
    /\ 10 * DigitVal(text[1]) + DigitVal(text[2]) = n

\* The number a day token of DayTokens writes.
DayNumber(tok) ==
    CASE tok = <<"1">> -> 1
      [] tok = <<"0", "9">> -> 9
      [] tok = <<"1", "2">> -> 12
      [] tok = <<"3", "1">> -> 31

\* C8: for a date text whose first three tokens are a day number, one of the
\* twelve month abbreviations and a four-digit year, date_in_ledger_fmt
\* returns YYYY/MM/DD, MM the abbreviation's 1-based calendar position and DD
\* the day, each of exactly two digits, ignoring further tokens; for a month
\* abbreviation not in the table, or fewer than three tokens, it fails.
C8_DateFormat ==
    pc = "returned" =>
        IF arg.ntokens < 3 \/ arg.month \in UnknownMonths
        THEN result.raised
        ELSE /\ ~result.raised
             /\ Len(result.val) = 10
             /\ SubSeq(result.val, 1, 4) = arg.year
             /\ result.val[5] = "/"
             /\ \E m \in 1..12 :
                    /\ months[m] = arg.month
                    /\ TwoDigitsOf(SubSeq(result.val, 6, 7), m)
             /\ result.val[8] = "/"
             /\ TwoDigitsOf(SubSeq(result.val, 9, 10), DayNumber(arg.day))

\* "1 wrz 2022 (cz.)" has been converted to 2022/09/01.
C8_Witness ==
    /\ pc = "returned"
    /\ DateText(arg) = <<"1", " ", "w", "r", "z", " ", "2", "0", "2", "2", " ",
                         "(", "c", "z", ".", ")">>
    /\ result = Return(<<"2", "0", "2", "2", "/", "0", "9", "/", "0", "1">>)

\* A date with an unknown month abbreviation, and one of two tokens, have
\* been refused.
C8_WitnessFailure ==
    /\ pc = "returned"
    /\ result.raised
    /\ arg.ntokens = 2 \/ (arg.ntokens = 3 /\ arg.month = <<"j", "a", "n">>)

\* ---------------------------------------------------------- table renderer
RECURSIVE Spaces(_)
Spaces(k) == IF k <= 0 THEN <<>> ELSE <<" ">> \o Spaces(k - 1)

\* Mutation: the padding of a left-justified cell is put in front of it.
ljust_pads_in_front(cell, width) == Spaces(width - Len(cell)) \o cell

\* str.ljust(width)
ljust(cell, width) == cell \o Spaces(width - Len(cell))

\* str.rjust(width)
rjust(cell, width) == Spaces(width - Len(cell)) \o cell

\* zip(*matrix): as many columns as the shortest row has cells.
transposed(matrix) ==
    IF matrix = <<>> THEN <<>>
    ELSE LET n == SetMin({Len(matrix[r]) : r \in 1..Len(matrix)})
         IN  [c \in 1..n |-> [r \in 1..Len(matrix) |-> matrix[r][c]]]

\* One pass of the loop over zip(columns, justify.split()): the justified
\* column, or an exception (len() of None, or an unsupported specifier).
justified_column(col, justification) ==
    IF \E r \in 1..Len(col) : col[r] = None THEN Raise
    ELSE IF justification \notin {<<"l">>, <<"r">>} THEN Raise
    ELSE LET width == SetMax({Len(col[r]) : r \in 1..Len(col)})
         IN  Return([r \in 1..Len(col) |->
                        IF justification = <<"l">> THEN ljust(col[r], width)
                        ELSE rjust(col[r], width)])

table(rows, justify, col_gap) ==
    LET columns == transposed(rows)
        specifiers == split(justify)
        n == IF Len(columns) < Len(specifiers) THEN Len(columns)
             ELSE Len(specifiers)
        done == [k \in 1..n |-> justified_column(columns[k], specifiers[k])]
    IN  IF \E k \in 1..n : done[k].raised THEN Raise
        ELSE LET transposed_result == [k \in 1..n |-> done[k].val]
                 rows_with_justified_columns == transposed(transposed_result)
                 result_lines ==
                     [r \in 1..Len(rows_with_justified_columns) |->
                         join(rows_with_justified_columns[r], col_gap)]
             IN  Return(join(result_lines, <<NL>>))

\* ------------------------------------------------------------------------
\* Specification of table applied to one matrix and justification spec.
\* ------------------------------------------------------------------------
CellTexts == {<<"a">>, <<"b", "c", "d">>}
JustifyTokens == {<<"l">>, <<"r">>, <<"c">>}
ColGaps == {<<" ">>, <<" ", " ">>}

Matrices ==
    UNION { [1..nr -> [1..nc -> CellTexts]] : nr \in 1..MaxTRows, nc \in 1..MaxTCols }

JustifySpecs ==
    UNION { [1..n -> JustifyTokens] : n \in 0..(MaxTCols + 1) }

TableInputs == [rows : Matrices, justify : JustifySpecs, col_gap : ColGaps]

InitTable ==
    /\ pc = "call"
    /\ arg \in TableInputs
    /\ result = Pending
    /\ ScriptIdle

CallTable ==
    /\ pc = "call"
    /\ result' = table(arg.rows, join(arg.justify, <<" ">>), arg.col_gap)
    /\ pc' = "returned"
    /\ UNCHANGED <<tsv_file, reader, transactions, todo, emitted, dest_before,
                   dest_file, arg>>

SpecTable == InitTable /\ [][CallTable]_vars

\* ---------------------------------------------------- statements on tables
NRows == Len(arg.rows)
NCols == Len(arg.rows[1])
ColWidth(c) == SetMax({Len(arg.rows[r][c]) : r \in 1..NRows})

RECURSIVE SumWidths(_)
\* Sum of the widths of columns 1..c.
SumWidths(c) == IF c = 0 THEN 0 ELSE SumWidths(c - 1) + ColWidth(c)

\* Where column c starts in a line: after c-1 columns and c-1 gaps.
ColOffset(c) == SumWidths(c - 1) + (c - 1) * Len(arg.col_gap)

AllSpaces(text) == \A k \in 1..Len(text) : text[k] = " "

\* The part of a line holding column c is the cell, with spaces after it
\* (left-justified) or before it (right-justified).
CellPadded(line, r, c) ==
    LET cell == arg.rows[r][c]
        w == ColWidth(c)
        field == SubSeq(line, ColOffset(c) + 1, ColOffset(c) + w)
    IN  IF arg.justify[c] = <<"l">>
        THEN /\ SubSeq(field, 1, Len(cell)) = cell
             /\ AllSpaces(SubSeq(field, Len(cell) + 1, w))
        ELSE /\ SubSeq(field, w - Len(cell) + 1, w) = cell
             /\ AllSpaces(SubSeq(field, 1, w - Len(cell)))

ValidJustify ==
    /\ Len(arg.justify) = NCols
    /\ \A c \in 1..NCols : arg.justify[c] \in {<<"l">>, <<"r">>}

\* C9: for a non-empty rectangular matrix and a justification spec with one
\* valid token per column, table returns one line per matrix row; in each
\* column every cell is padded to the column's maximum cell width (on the
\* right when left-justified, on the left when right-justified, the cell text
\* unchanged), so every line has the same length: the sum of the column
\* widths plus (columns - 1) times the gap length.
C9_TableAligned ==
    (pc = "returned" /\ ValidJustify) =>
        /\ ~result.raised
        /\ LET lines == splitOn(result.val, NL)
           IN  /\ Len(lines) = NRows
               /\ \A r \in 1..NRows :
                      /\ Len(lines[r])
                             = SumWidths(NCols) + (NCols - 1) * Len(arg.col_gap)
                      /\ \A c \in 1..NCols : CellPadded(lines[r], r, c)
                      /\ \A c \in 2..NCols :
                             SubSeq(lines[r], ColOffset(c) - Len(arg.col_gap) + 1,
                                    ColOffset(c)) = arg.col_gap

\* A two-row, two-column table with cells of different widths in both
\* columns has been rendered left / right justified with a two-space gap.
C9_Witness ==
    /\ pc = "returned"
    /\ arg.rows = << <<<<"a">>, <<"b", "c", "d">>>>, <<<<"b", "c", "d">>, <<"a">>>> >>
    /\ arg.justify = << <<"l">>, <<"r">> >>
    /\ arg.col_gap = <<" ", " ">>
    /\ result = Return(<<"a", " ", " ", " ", " ", "b", "c", "d", NL,
                         "b", "c", "d", " ", " ", " ", " ", "a">>)

\* C10: table fails whenever the justification spec holds a token that is
\* not a supported justification, or whenever its number of tokens differs
\* from the number of columns of the matrix.
C10_ConfigError ==
    (pc = "returned" /\ ~ValidJustify) => result.raised

\* ------------------------------------------------------ rows and grouping
account_in_ledger_fmt(account_in_source_fmt) ==
    IF account_in_source_fmt = None THEN Raise
    ELSE Return(join(reversed(splitOn(account_in_source_fmt, "\\")), <<":">>))

NoRow == [ordinal |-> 0, date |-> <<>>, description |-> <<>>,
          account |-> <<>>, amount |-> <<>>]

\* JournalRow(ordinal, date, desc, account, amount), or the exception of the
\* first conversion that raises.
journal_row(row_dict) ==
    LET ordinal == int(row_dict["ordinal"])
        date == date_in_ledger_fmt(row_dict["date"])
        desc == row_dict["description"]
        account == account_in_ledger_fmt(row_dict["account"])
        amount == amount_in_ledger_fmt(row_dict["amount"])
    IN  IF ordinal.raised \/ date.raised \/ account.raised \/ amount.raised
        THEN [raised |-> TRUE, val |-> NoRow]
        ELSE Return([ordinal |-> ordinal.val, date |-> date.val,
                     description |-> desc, account |-> account.val,
                     amount |-> amount.val])

fieldnames == <<"ordinal", "date", "description", "account",
                "other_account", "amount", "is_posted">>

\* csv.DictReader: the fields of a record by name; a name beyond the
\* record's last field gets None, fields beyond the last name are set aside.
DictReader(record) ==
    [name \in {fieldnames[k] : k \in 1..Len(fieldnames)} |->
        LET k == CHOOSE i \in 1..Len(fieldnames) : fieldnames[i] = name
        IN  IF k <= Len(record) THEN record[k] ELSE None]

\* Index of the next record the reader yields from position i on (blank
\* lines are skipped); 0 at the end of the file.
NextRecord(file, i) ==
    IF \E j \in i..Len(file) : file[j] # <<>>
    THEN CHOOSE j \in i..Len(file) :
             file[j] # <<>> /\ \A k \in i..(j - 1) : file[k] = <<>>
    ELSE 0

\* Mutation: the row replaces the group (transactions[ordinal] = [row]).
appended_replacing(groups, row_tuple) ==
    [o \in DOMAIN groups \cup {row_tuple.ordinal} |->
        IF o = row_tuple.ordinal THEN <<row_tuple>> ELSE groups[o]]

\* transactions[row_tuple.ordinal].append(row_tuple) on the defaultdict(list)
appended(groups, row_tuple) ==
    [o \in DOMAIN groups \cup {row_tuple.ordinal} |->
        IF o = row_tuple.ordinal
        THEN (IF o \in DOMAIN groups THEN groups[o] ELSE <<>>) \o <<row_tuple>>
        ELSE groups[o]]

\* ------------------------------------------------------------ the writer
\* Mutation: only the first line is indented.
indented_first_line_only(text) == Spaces(4) \o text

\* indented(text), with the default width of 4
indented(text) ==
    Spaces(4) \o join(splitOn(text, NL), <<NL>> \o Spaces(4))

\* Order of the decimal texts of a and b as strings ('-' sorts before digits).
CharRank(c) == IF c = "-" THEN 0 ELSE DigitVal(c) + 1
TextLess(a, b) ==
    LET x == str(a)
        y == str(b)
    IN  \E k \in 1..(Len(x) + 1) :
            /\ k <= Len(y)
            /\ \A i \in 1..(k - 1) : x[i] = y[i]
            /\ k = Len(x) + 1 \/ CharRank(x[k]) < CharRank(y[k])

\* Mutation: the keys are ordered as text (as if they had been kept as str).
sorted_as_text(keys) ==
    CHOOSE q \in [1..Cardinality(keys) -> keys] :
        \A i, j \in 1..Cardinality(keys) : i < j => TextLess(q[i], q[j])

\* sorted(transactions.keys()): the keys, each once, the least first
sorted(keys) ==
    CHOOSE q \in [1..Cardinality(keys) -> keys] :
        \A i, j \in 1..Cardinality(keys) : i < j => q[i] < q[j]

\* print(text, file=out_file)
writeln(content, text) == content \o text \o <<NL>>

\* ------------------------------------------------------------------------
\* Specification of the script: one run on one input file.
\* ------------------------------------------------------------------------
D1 == <<"1", " ", "w", "r", "z", " ", "2", "0", "2", "2">>
D2 == <<"1", "2", " ", "l", "u", "t", " ", "2", "0", "2", "3">>
A1 == <<"C", "\\", "A">>
A2 == <<"B">>
M1 == <<"5", ",", "0", "0", " ", "E", "U", "R">>
M2 == <<"(", "2", " ", "0", "9", "9", ",", "4", "9", ")", " ", "z", "l_stroke">>
M3 == <<"-", " ", "z", "l_stroke">>
\* an amount with a dot for the comma: none of the three patterns
MBad == <<"5", ".", "0", "0", " ", "z", "l_stroke">>
Oth == <<"o">>
Pst == <<"y">>

Header == << <<"n">>, <<"d">>, <<"t">>, <<"a">>, <<"o">>, <<"m">>, <<"p">> >>

RowA == << <<"2">>, D1, <<"x">>, A1, Oth, M1, Pst >>
RowB == << <<"1", "0">>, D2, <<"y">>, A2, Oth, M2, Pst >>
\* the ordinal of RowA written otherwise, another date and description
RowC == << <<"0", "2">>, D2, <<"y">>, A2, Oth, M3, Pst >>
RowD == << <<"3">>, D1, <<"z">>, A2, Oth, M1, Pst >>
RowBadAmount == << <<"1", "0">>, D1, <<"x">>, A1, Oth, MBad, Pst >>
RowBadOrdinal == << <<"x">>, D1, <<"x">>, A1, Oth, M1, Pst >>
RowSixFields == << <<"1", "0">>, D2, <<"y">>, A2, Oth, M1 >>
RowFiveFields == << <<"2">>, D1, <<"x">>, A1, Oth >>
BlankLine == <<>>

Records ==
    {RowA, RowB, RowC, RowD, RowBadAmount, RowBadOrdinal, RowSixFields,
     RowFiveFields, BlankLine}

OldFile == [exists |-> TRUE, content |-> <<"o", "l", "d", NL>>]

Init ==
    /\ pc = "start"
    /\ tsv_file \in {<<>>} \cup {<<Header>> \o d : d \in SeqsUpTo(Records, MaxRows)}
    /\ reader = 1
    /\ transactions = <<>>
    /\ todo = <<>>
    /\ emitted = <<>>
    /\ dest_before \in {NoFile, OldFile}
    /\ dest_file = dest_before
    /\ arg = <<>>
    /\ result = Pending

\* open(args.tsv_file), csv.DictReader(...), next(rows)
SkipHeader ==
    /\ pc = "start"
    /\ LET h == NextRecord(tsv_file, reader)
       IN  IF h = 0
           THEN pc' = "failed" /\ UNCHANGED reader
           ELSE pc' = "grouping" /\ reader' = h + 1
    /\ UNCHANGED <<tsv_file, transactions, todo, emitted, dest_before,
                   dest_file, arg, result>>

\* one pass of the loop "for row_dict in rows"
GroupRow ==
    /\ pc = "grouping"
    /\ NextRecord(tsv_file, reader) # 0
    /\ LET j == NextRecord(tsv_file, reader)
           row_tuple == journal_row(DictReader(tsv_file[j]))
       IN  /\ reader' = j + 1
           /\ IF row_tuple.raised
              THEN pc' = "failed" /\ UNCHANGED transactions
              ELSE /\ transactions' = appended(transactions, row_tuple.val)
                   /\ pc' = "grouping"
    /\ UNCHANGED <<tsv_file, todo, emitted, dest_before, dest_file, arg, result>>

\* the reader is exhausted: transactions_dict returns, the input is closed
EndOfInput ==
    /\ pc = "grouping"
    /\ NextRecord(tsv_file, reader) = 0
    /\ pc' = "open_dest"
    /\ UNCHANGED <<tsv_file, reader, transactions, todo, emitted, dest_before,
                   dest_file, arg, result>>

\* open(args.dest_file, 'wt') and sorted(transactions.keys())
OpenDest ==
    /\ pc = "open_dest"
    /\ dest_file' = [exists |-> TRUE, content |-> <<>>]
    /\ todo' = sorted(DOMAIN transactions)
    /\ pc' = "writing"
    /\ UNCHANGED <<tsv_file, reader, transactions, emitted, dest_before,
                   arg, result>>

\* one pass of the loop "for ordinal in sorted(...)"
WriteBlock ==
    /\ pc = "writing"
    /\ todo # <<>>
    /\ LET ordinal == Head(todo)
           rows == transactions[ordinal]
           date == rows[1].date
           description == rows[1].description
           transfers == [k \in 1..Len(rows) |-> <<rows[k].account, rows[k].amount>>]
           headed == writeln(dest_file.content, date \o <<" ">> \o description)
           rendered == table(transfers, <<"l", " ", "r">>, <<" ", " ">>)
       IN  IF rendered.raised
           THEN /\ dest_file' = [dest_file EXCEPT !.content = headed]
                /\ pc' = "failed"
                /\ UNCHANGED <<todo, emitted>>
           ELSE /\ dest_file' =
                       [dest_file EXCEPT !.content =
                           writeln(writeln(headed, indented(rendered.val)), <<>>)]
                /\ todo' = Tail(todo)
                /\ emitted' = Append(emitted, ordinal)
                /\ pc' = "writing"
    /\ UNCHANGED <<tsv_file, reader, transactions, dest_before, arg, result>>

\* the loop is over: the destination is closed
CloseDest ==
    /\ pc = "writing"
    /\ todo = <<>>
    /\ pc' = "done"
    /\ UNCHANGED <<tsv_file, reader, transactions, todo, emitted, dest_before,
                   dest_file, arg, result>>

Next ==
    \/ SkipHeader
    \/ GroupRow
    \/ EndOfInput
    \/ OpenDest
    \/ WriteBlock
    \/ CloseDest

Spec == Init /\ [][Next]_vars

\* --------------------------------------------------- statements on a run
\* The data records of the input, in file order: what follows the header.
DataRecords ==
    LET read == SelectSeq(tsv_file, LAMBDA r : r # <<>>)
    IN  IF read = <<>> THEN <<>> ELSE Tail(read)

\* The data records carrying ordinal o, in file order.
RecordsOf(o) ==
    SelectSeq(DataRecords, LAMBDA r : ~int(r[1]).raised /\ int(r[1]).val = o)

\* The lines of the destination file (each ended by a newline).
OutLines ==
    LET pieces == splitOn(dest_file.content, NL)
    IN  SubSeq(pieces, 1, Len(pieces) - 1)

\* What follows the last newline of the destination file.
Unterminated ==
    LET pieces == splitOn(dest_file.content, NL)
    IN  pieces[Len(pieces)]

RECURSIVE BlocksOf(_)
\* The runs of lines that an empty line ends, in order.
BlocksOf(lines) ==
    IF \A k \in 1..Len(lines) : lines[k] # <<>> THEN <<>>
    ELSE LET e == CHOOSE k \in 1..Len(lines) :
                      lines[k] = <<>> /\ \A i \in 1..(k - 1) : lines[i] # <<>>
         IN  <<SubSeq(lines, 1, e - 1)>> \o BlocksOf(SubSeq(lines, e + 1, Len(lines)))

RECURSIVE AfterBlocks(_)
\* The lines after the last empty line.
AfterBlocks(lines) ==
    IF \A k \in 1..Len(lines) : lines[k] # <<>> THEN lines
    ELSE AfterBlocks(Tail(lines))

Blocks == BlocksOf(OutLines)

EndsWith(text, tok) ==
    /\ Len(tok) <= Len(text)
    /\ SubSeq(text, Len(text) - Len(tok) + 1, Len(text)) = tok

Malformed(rec) == Len(rec) = 6 \/ int(rec[1]).raised

\* C1: if any data record has 6 tab-delimited fields instead of 7, or an
\* ordinal field that is not a base-10 integer, the run ends in failure and
\* the destination file is never created, truncated or written to.
C1_MalformedInputFails ==
    (\E k \in 1..Len(DataRecords) : Malformed(DataRecords[k])) =>
        /\ pc # "done"
        /\ dest_file = dest_before

UnmatchedAmount(rec) ==
    /\ Len(rec) >= 6
    /\ ~POSITIVE_AMOUNT_PATTERN(rec[6]).ok
    /\ ~NEGATIVE_AMOUNT_PATTERN(rec[6]).ok
    /\ ~ZERO_AMOUNT_PATTERN(rec[6]).ok

\* C2: if some data record's amount field matches none of the three amount
\* patterns, the run aborts at that record during the grouping pass, before
\* the destination file is opened: no transaction block is written and the
\* destination is not truncated.
C2_UnmatchedAmountAborts ==
    (\E k \in 1..Len(DataRecords) : UnmatchedAmount(DataRecords[k])) =>
        /\ pc \notin {"open_dest", "writing", "done"}
        /\ emitted = <<>>
        /\ dest_file = dest_before

\* C3: transaction blocks are written in strictly ascending order of their
\* ordinal compared as integers, whatever the order in which the ordinals
\* first appear in the input, and in a run that ends well each distinct
\* ordinal of the input yields exactly one block.
C3_AscendingOrdinals ==
    /\ \A i, j \in 1..Len(emitted) : i < j => emitted[i] < emitted[j]
    /\ pc = "done" =>
           /\ {emitted[i] : i \in 1..Len(emitted)}
                  = {int(DataRecords[k][1]).val : k \in 1..Len(DataRecords)}
           /\ Len(Blocks) = Len(emitted)

\* Ordinals 10, 3, 2 in input order have been written as 2, 3, 10.
C3_Witness ==
    /\ pc = "done"
    /\ DataRecords = <<RowB, RowD, RowA>>
    /\ emitted = <<2, 3, 10>>

\* The line of a block written for a data record: indented, the record's
\* account in front and its amount at the end.
LineOfRecord(line, rec) ==
    /\ StartsAt(line, 5, account_in_ledger_fmt(rec[4]).val)
    /\ EndsWith(line, amount_in_ledger_fmt(rec[6]).val)

\* C4: the block written for an ordinal holds exactly one account/amount
\* line per data row carrying that ordinal, in the rows' file order, also
\* when those rows are not contiguous; no data row is dropped, duplicated or
\* placed in another ordinal's block.
C4_OneLinePerRow ==
    /\ \A i \in 1..Len(emitted) :
           /\ i <= Len(Blocks)
           /\ LET rows == RecordsOf(emitted[i])
              IN  /\ Len(Blocks[i]) = 1 + Len(rows)
                  /\ \A k \in 1..Len(rows) : LineOfRecord(Blocks[i][k + 1], rows[k])
    /\ pc = "done" =>
           \A k \in 1..Len(DataRecords) :
               \E i \in 1..Len(emitted) : int(DataRecords[k][1]).val = emitted[i]

\* The rows of ordinal 2 stand before and after the row of ordinal 10; the
\* block of ordinal 2 holds both, in file order.
C4_Witness ==
    /\ pc = "done"
    /\ DataRecords = <<RowA, RowB, RowC>>
    /\ emitted = <<2, 10>>
    /\ Len(Blocks[1]) = 3
    /\ Blocks[1][2] = <<" ", " ", " ", " ", "A", ":", "C", " ", " ",
                        "5", ".", "0", "0", " ", "E", "U", "R">>
    /\ Blocks[1][3] = <<" ", " ", " ", " ", "B", " ", " ", " ", " ",
                        "0", ".", "0", "0", " ", "P", "L", "N">>

\* C5: every block written is one header line "<date> <description>", date
\* and description those of the first row (in file order) of the ordinal's
\* group; then the group's account/amount lines, each prefixed by exactly
\* four spaces, the last one too; then exactly one empty line, also after
\* the last block of the file.
C5_BlockShape ==
    /\ \A i \in 1..Len(emitted) :
           /\ i <= Len(Blocks)
           /\ LET first == RecordsOf(emitted[i])[1]
                  block == Blocks[i]
              IN  /\ Len(block) >= 2
                  /\ block[1] = date_in_ledger_fmt(first[2]).val \o <<" ">> \o first[3]
                  /\ \A k \in 2..Len(block) :
                         /\ Len(block[k]) > 4
                         /\ SubSeq(block[k], 1, 4) = <<" ", " ", " ", " ">>
                         /\ block[k][5] # " "
    /\ pc \in {"writing", "done"} =>
           /\ Len(Blocks) = Len(emitted)
           /\ AfterBlocks(OutLines) = <<>>
           /\ Unterminated = <<>>

\* A group whose second row has another date and description has been
\* written under the date and description of its first row.
C5_Witness ==
    /\ pc = "done"
    /\ DataRecords = <<RowA, RowC>>
    /\ dest_file.content =
           <<"2", "0", "2", "2", "/", "0", "9", "/", "0", "1", " ", "x", NL,
             " ", " ", " ", " ", "A", ":", "C", " ", " ",
             "5", ".", "0", "0", " ", "E", "U", "R", NL,
             " ", " ", " ", " ", "B", " ", " ", " ", " ",
             "0", ".", "0", "0", " ", "P", "L", "N", NL,
             NL>>

=============================================================================
